---------------------------- MODULE Spec2Model ----------------------------
(***************************************************************************)
(* A model of buildstream's Variables helper (src/buildstream/             *)
(* _variables.pyx): the store of Value objects built from a mapping node,  *)
(* the process-wide VALUE_CLASS_TABLE of parsed value strings, and the     *)
(* iterative resolution algorithm of Variables._resolve() with its         *)
(* ResolutionStep stack.                                                   *)
(*                                                                         *)
(* Python strings are sequences of one-character strings, so that parsing  *)
(* and joining are computed and not assumed.  None is the empty tuple and  *)
(* an object x that may be None is held as <<x>>.                          *)
(***************************************************************************)
EXTENDS Naturals, Sequences, FiniteSets

\* ------------------------------------------------------------------------
\* Strings
\* ------------------------------------------------------------------------

None == <<>>

Some(x) == <<x>>

Letters ==
    { "a", "b", "c", "d", "e", "f", "g", "h", "i", "j", "k", "l", "m",
      "n", "o", "p", "q", "r", "s", "t", "u", "v", "w", "x", "y", "z",
      "A", "B", "C", "D", "E", "F", "G", "H", "I", "J", "K", "L", "M",
      "N", "O", "P", "Q", "R", "S", "T", "U", "V", "W", "X", "Y", "Z" }

Digits == { "0", "1", "2", "3", "4", "5", "6", "7", "8", "9" }

\* [a-zA-Z0-9_-]
NameChars == Letters \cup Digits \cup { "_", "-" }

\* The end of the longest run of name characters of s that starts at i
\* (i - 1 when s[i] is not one): the greedy [a-zA-Z0-9_-]*
RECURSIVE NameRunEnd(_, _)
NameRunEnd(s, i) ==
    IF i <= Len(s) /\ s[i] \in NameChars THEN NameRunEnd(s, i + 1) ELSE i - 1

\* The index of the closing brace of a match of \%\{([a-zA-Z][a-zA-Z0-9_-]*)\}
\* that starts at s[i], or 0 when the expression does not match there.  A
\* brace is no name character, so the greedy run is the only candidate.
VALUE_CLASS_PARSE_EXPANSION(s, i) ==
    IF /\ i + 3 <= Len(s)
       /\ s[i] = "%"
       /\ s[i + 1] = "{"
       /\ s[i + 2] \in Letters
    THEN LET e == NameRunEnd(s, i + 3) + 1
         IN  IF e <= Len(s) /\ s[e] = "}" THEN e ELSE 0
    ELSE 0

\* re.split() with one capture group: the text before each match and the
\* group of the match alternate, the text after the last match comes last;
\* matches are found left to right and do not overlap.  lit is the text
\* read since the last match.
RECURSIVE RegexSplit(_, _, _)
RegexSplit(s, i, lit) ==
    IF i > Len(s)
    THEN << lit >>
    ELSE LET e == VALUE_CLASS_PARSE_EXPANSION(s, i)
         IN  IF e = 0
             THEN RegexSplit(s, i + 1, Append(lit, s[i]))
             ELSE << lit, SubSeq(s, i + 2, e - 1) >> \o RegexSplit(s, e + 1, << >>)

\* "".join(parts)
RECURSIVE Join(_)
Join(parts) ==
    IF parts = << >> THEN << >> ELSE Head(parts) \o Join(Tail(parts))

\* ------------------------------------------------------------------------
\* ValuePart and ValueClass
\* ------------------------------------------------------------------------

ValuePart(text, is_variable) == [text |-> text, is_variable |-> is_variable]

\* A faulty ParseParts: the empty splits become parts as well.
ParseParts_KeepEmpty(splits, idx) ==
    [ i \in 1..(Len(splits) - idx + 1) |->
        ValuePart(splits[idx + i - 1], ((idx + i - 2) % 2) # 0) ]

\* The loop of ValueClass._parse_string() from split number idx (1-based
\* here, so an odd split_idx of the source is an even idx) on: empty splits
\* are skipped, the others become parts, in order.
RECURSIVE ParseParts(_, _)
ParseParts(splits, idx) ==
    IF idx > Len(splits)
    THEN << >>
    ELSE LET split == splits[idx]
         IN  IF split # << >>
             THEN << ValuePart(split, ((idx - 1) % 2) # 0) >>
                      \o ParseParts(splits, idx + 1)
             ELSE ParseParts(splits, idx + 1)

\* ValueClass.init(string): the parts list and the set of variable names.
\* oid is the object's identity.
ValueClass_init(string, oid) ==
    LET splits == RegexSplit(string, 1, << >>)
        parts == ParseParts(splits, 1)
    IN  [ parts |-> parts,
          variable_names |->
              { parts[i].text : i \in { j \in DOMAIN parts : parts[j].is_variable } },
          oid |-> oid ]

\* A faulty Load_value_class: the table is not looked up; the string is
\* parsed and the new ValueClass inserted at every call.
Load_value_class_Always(table, n, string) ==
    LET ret == ValueClass_init(string, n + 1)
    IN  [ ret |-> ret,
          table |-> [ s \in DOMAIN table \cup { string } |->
                        IF s = string THEN ret ELSE table[s] ],
          n |-> n + 1 ]

\* Value._load_value_class(string) on the table `table` with `n` ValueClass
\* objects instantiated so far: the cached object, or a new one that is
\* parsed and inserted.
Load_value_class(table, n, string) ==
    IF string \in DOMAIN table
    THEN [ ret |-> table[string], table |-> table, n |-> n ]
    ELSE LET ret == ValueClass_init(string, n + 1)
         IN  [ ret |-> ret,
               table |-> [ s \in DOMAIN table \cup { string } |->
                             IF s = string THEN ret ELSE table[s] ],
               n |-> n + 1 ]

\* ------------------------------------------------------------------------
\* Nodes: the input of the constructor, of subst() and of expand()
\* ------------------------------------------------------------------------

ScalarNode(text, provenance) ==
    [ type |-> "scalar", value |-> text, provenance |-> provenance ]

\* The provenance of a node made from a plain string by the MappingNode API.
SyntheticProvenance == << "synthetic" >>

Item(key, node) == [ key |-> key, node |-> node ]

\* A mapping node holds its items in insertion order.
MappingKeys(items) == { items[i].key : i \in DOMAIN items }

MappingGet(items, key) ==
    items[CHOOSE i \in DOMAIN items : items[i].key = key].node

\* MappingNode.get_bool(key, default)
MappingNode_get_bool(items, key, default) ==
    IF key \in MappingKeys(items)
    THEN MappingGet(items, key).value = << "T", "r", "u", "e" >>
    ELSE default

\* MappingNode.__setitem__(key, str): the string becomes a ScalarNode; an
\* existing key keeps its place, a new one is added at the end.
MappingNode_setitem(items, key, text) ==
    LET new == ScalarNode(text, SyntheticProvenance)
    IN  IF key \in MappingKeys(items)
        THEN [ i \in DOMAIN items |->
                 IF items[i].key = key THEN Item(key, new) ELSE items[i] ]
        ELSE Append(items, Item(key, new))

NotParallel == << "n", "o", "t", "p", "a", "r", "a", "l", "l", "e", "l" >>

MaxJobs == << "m", "a", "x", "-", "j", "o", "b", "s" >>


\* The provenance of the value the input gives for `key`.
InputProvenance(key) == << "element.bst", ":" >> \o key

\* ------------------------------------------------------------------------
\* Value
\* ------------------------------------------------------------------------

\* Value.init(node) on the table `table`: the new Value and the table after
\* _load_value_class().  vid names the object: 0 for a Value that is in
\* no store, as the one subst() makes for its own use.
Value_init(n, table, count) ==
    LET loaded == Load_value_class(table, count, n.value)
    IN  [ value |-> [ vid |-> 0,
                      provenance |-> n.provenance,
                      _value_class |-> loaded.ret,
                      _resolved |-> None ],
          table |-> loaded.table,
          n |-> loaded.n ]

\* Value.dependencies()
Value_dependencies(v) ==
    IF v._resolved = None THEN v._value_class.variable_names ELSE { }

\* A faulty ResolvedParts: the name of a variable part is appended, not the
\* resolved string of the Value it names.
ResolvedParts_Names(parts, values, i) ==
    [ j \in 1 .. (Len(parts) + 1 - i) |-> parts[j + i - 1].text ]

\* The strings Value.resolve() joins, for the parts from index i on.
RECURSIVE ResolvedParts(_, _, _)
ResolvedParts(parts, values, i) ==
    IF i > Len(parts)
    THEN << >>
    ELSE << IF parts[i].is_variable
            THEN values[parts[i].text]._resolved[1]
            ELSE parts[i].text >> \o ResolvedParts(parts, values, i + 1)

\* Value.resolve(values): the string it returns, with the exception it
\* raises instead when a variable part names no key of `values` (KeyError)
\* or a Value that is not resolved yet (join() of None: TypeError).
Value_resolve(v, values) ==
    IF v._resolved # None
    THEN [ raised |-> "", str |-> v._resolved[1] ]
    ELSE LET parts == v._value_class.parts
             vars == { parts[i].text : i \in { j \in DOMAIN parts : parts[j].is_variable } }
         IN  IF \E n \in vars : n \notin DOMAIN values
             THEN [ raised |-> "KeyError", str |-> << >> ]
             ELSE IF \E n \in vars : values[n]._resolved = None
             THEN [ raised |-> "TypeError", str |-> << >> ]
             ELSE [ raised |-> "", str |-> Join(ResolvedParts(parts, values, 1)) ]

\* ------------------------------------------------------------------------
\* Variables.__init__
\* ------------------------------------------------------------------------

\* `value = Value()` in _init_values(): a new object, unlike any of the
\* `count` Values made for the stores of the process before.
Value_new(count) == count + 1

\* Variables._init_values(node), from item i on: one Value per item, in the
\* order of the node's items.  acc holds the dict so far, its insertion
\* order, the class table and the number of Values made.
RECURSIVE Init_values(_, _, _)
Init_values(items, i, acc) ==
    IF i > Len(items)
    THEN acc
    ELSE LET made == Value_init(items[i].node, acc.table, acc.n)
             key == items[i].key
         IN  Init_values(items, i + 1,
                 [ ret |-> [ k \in DOMAIN acc.ret \cup { key } |->
                               IF k = key
                               THEN [ made.value EXCEPT !.vid = Value_new(acc.nv) ]
                               ELSE acc.ret[k] ],
                   keys |-> IF key \in DOMAIN acc.ret THEN acc.keys
                            ELSE Append(acc.keys, key),
                   table |-> made.table,
                   n |-> made.n,
                   nv |-> Value_new(acc.nv) ])

EmptyDict == [ k \in { } |-> None ]

\* A faulty Variables_init: max-jobs is set to "1" only where the input
\* gives none.
Variables_init_Default(items, table, count, nv) ==
    LET n == IF /\ MappingNode_get_bool(items, NotParallel, FALSE)
                /\ MaxJobs \notin MappingKeys(items)
             THEN MappingNode_setitem(items, MaxJobs, << "1" >>)
             ELSE items
    IN  Init_values(n, 1, [ ret |-> [ k \in { } |-> None ], keys |-> << >>,
                            table |-> table, n |-> count, nv |-> nv ])

\* A faulty Variables_init: the Values are not made anew for the store but
\* taken from a list the process keeps, the Value of the i-th variable
\* being one object in every store.
Variables_init_Pooled(items, table, count, nv) ==
    LET n == IF MappingNode_get_bool(items, NotParallel, FALSE)
             THEN MappingNode_setitem(items, MaxJobs, << "1" >>)
             ELSE items
    IN  Init_values(n, 1, [ ret |-> [ k \in { } |-> None ], keys |-> << >>,
                            table |-> table, n |-> count, nv |-> 0 ])

\* Variables.__init__(node) in a process whose class table is `table` and
\* that has made `nv` Values: the notparallel special case, then
\* _init_values().
Variables_init(items, table, count, nv) ==
    LET n == IF MappingNode_get_bool(items, NotParallel, FALSE)
             THEN MappingNode_setitem(items, MaxJobs, << "1" >>)
             ELSE items
    IN  Init_values(n, 1, [ ret |-> EmptyDict, keys |-> << >>,
                            table |-> table, n |-> count, nv |-> nv ])

\* ------------------------------------------------------------------------
\* The inputs
\* ------------------------------------------------------------------------

\* "%{name}"
Ref(name) == << "%", "{" >> \o name \o << "}" >>

A == << "a" >>

B == << "b" >>

C == << "c" >>

\* A name no input defines.
Missing == << "m" >>

TemplatesA == { << "x" >>, Ref(B) \o << "-" >> \o Ref(C), Ref(A), Ref(B) }

TemplatesB == { << >>, Ref(C) \o << "y" >>, Ref(A), Ref(Missing) }

TemplatesC == { << "z" >>, Ref(B), Ref(C) \o << "z" >>, Ref(Missing) \o Ref(A) }

InputItem(key, text) == Item(key, ScalarNode(text, InputProvenance(key)))

\* Elements with the three variables a, b and c.
GraphInputs ==
    { << InputItem(A, ta), InputItem(B, tb), InputItem(C, tc) >> :
        ta \in TemplatesA, tb \in TemplatesB, tc \in TemplatesC }

\* Elements that say, or do not say, notparallel and max-jobs.
BuildInputs ==
    { np \o mj \o << InputItem(A, << "x" >>) >> :
        np \in { << >>,
                 << InputItem(NotParallel, << "T", "r", "u", "e" >>) >>,
                 << InputItem(NotParallel, << "F", "a", "l", "s", "e" >>) >> },
        mj \in { << >>,
                 << InputItem(MaxJobs, << "4" >>) >>,
                 << InputItem(MaxJobs, Ref(A)) >> } }

D == << "d" >>

\* Elements in which a variable is referred to along two paths: a refers
\* to b and c, and b, which refers to d, is referred to by c as well.
DiamondInputs ==
    { << InputItem(A, Ref(B) \o << "-" >> \o Ref(C)), InputItem(B, Ref(D)),
         InputItem(C, tc), InputItem(D, << "w" >>) >> :
        tc \in { Ref(D), Ref(B) \o Ref(D) } }

Inputs == GraphInputs \cup BuildInputs \cup DiamondInputs


\* The scalars handed to subst().
T1 == ScalarNode(Ref(A) \o Ref(B), << "command", "1" >>)

T2 == ScalarNode(Ref(C) \o << "!" >>, << "command", "2" >>)

SubstNodes == { T1, T2 }

SequenceNode(entries) == [ type |-> "sequence", value |-> entries ]

MappingNode(items) == [ type |-> "mapping", value |-> items ]

\* The nodes handed to expand().
Docs ==
    { T2,
      MappingNode(<< Item(<< "k" >>, T2),
                     Item(<< "l" >>, SequenceNode(<< T1 >>)) >>) }

\* ------------------------------------------------------------------------
\* State
\* ------------------------------------------------------------------------

VARIABLES
    node,               \* the mapping node the element was constructed from
    _values,            \* Variables._values: name -> Value
    keys,               \* the insertion order of the dict _values
    VALUE_CLASS_TABLE,  \* the process-wide cache: string -> ValueClass
    nclasses,           \* the number of ValueClass objects instantiated
    pc,                 \* where the running call is, "idle" between calls
    op,                 \* the frame of the public method that is running
    args,               \* the arguments of the running _resolve()
    steps,              \* the ResolutionStep objects of the running _resolve()
    step,               \* _resolve(): step, an index into steps, 0 for None
    this_step,          \* _resolve(): this_step
    varnames,           \* the names of this_step.varnames not iterated yet
    deps,               \* _resolve(): deps, Values named by their key
    first_iteration,    \* _resolve(): first_iteration
    iter,               \* ValueIterator._iter: the next index into keys, 0
                        \* while no iterator exists
    result,             \* how the last public call ended
    pre,                \* the memos when the last public call started
    pre_resolve,        \* the memos when the last _resolve() started
    copy,               \* which construction from `node` _values is
    first,              \* the lookup that ended the use of the first copy
    nvalues,            \* the number of Value objects made for stores
    other,              \* the Variables of another element of the process
    threads             \* threads that construct Variables, each at a step
                        \* of _init_values()

vars ==
    << node, _values, keys, VALUE_CLASS_TABLE, nclasses, pc, op, args, steps,
       step, this_step, varnames, deps, first_iteration, iter, result, pre,
       pre_resolve, copy, first, nvalues, other, threads >>

\* The resolved-string memo of every Value of the store.
Memo == [ k \in DOMAIN _values |-> _values[k]._resolved ]

NoError == [ reason |-> "", varname |-> << >>, provenance |-> None, detail |-> << >> ]

NoValue == [ vid |-> 0, provenance |-> None,
             _value_class |-> ValueClass_init(<< >>, 0), _resolved |-> None ]

NoNode == ScalarNode(<< >>, None)

\* No public method is running.
NoOp ==
    [ kind |-> "", name |-> << >>, node |-> NoNode, value |-> NoValue,
      pending |-> { }, rest |-> << >>, doc |-> NoNode, leaves |-> << >>,
      path |-> << >> ]

NoResult ==
    [ op |-> "", name |-> << >>, node |-> NoNode, kind |-> "", value |-> << >>,
      error |-> NoError, caught |-> "", doc |-> NoNode ]

\* No other element has its Variables yet.
NoStore == [ node |-> << >>, _values |-> EmptyDict, keys |-> << >> ]

\* The process has constructed the Variables of one element, from one of
\* `inputs`, and has called none of its methods yet.
Constructed(inputs) ==
    /\ node \in inputs
    /\ LET made == Variables_init(node, EmptyDict, 0, 0)
       IN  /\ _values = made.ret
           /\ keys = made.keys
           /\ VALUE_CLASS_TABLE = made.table
           /\ nclasses = made.n
           /\ nvalues = made.nv
    /\ other = NoStore
    /\ pc = "idle"
    /\ op = NoOp
    /\ args = [ name |-> << >>, provenance |-> None ]
    /\ steps = << >>
    /\ step = 0
    /\ this_step = 0
    /\ varnames = { }
    /\ deps = << >>
    /\ first_iteration = TRUE
    /\ iter = 0
    /\ result = NoResult
    /\ pre = Memo
    /\ pre_resolve = Memo
    /\ copy = 1
    /\ first = [ result |-> NoResult, pre |-> EmptyDict ]

Init == Constructed(Inputs) /\ threads = << >>


\* ------------------------------------------------------------------------
\* ResolutionStep
\* ------------------------------------------------------------------------

\* ResolutionStep.init(referee, varnames, parent); prev is linked by the
\* caller.  parent and prev are indexes into `steps`, 0 for None.
ResolutionStep_init(referee, names, parent) ==
    [ referee |-> referee, varnames |-> names, parent |-> parent, prev |-> 0 ]

\* The walk of ResolutionStep.check_circular() from ancestor `s` on: the
\* first ancestor with the referee of `self`, or 0 when there is none.
RECURSIVE FindConflict(_, _, _)
FindConflict(all, self, s) ==
    IF s = 0
    THEN 0
    ELSE IF all[self].referee = all[s].referee
         THEN s
         ELSE FindConflict(all, self, all[s].parent)

\* A faulty Check_circular: the referee is compared with that of the
\* parent only, not with those of the ancestors above it.
Check_circular_Parent(all, self) ==
    LET parent == all[self].parent
    IN  IF parent # 0 /\ all[parent].referee = all[self].referee THEN parent ELSE 0

\* ResolutionStep.check_circular(): the conflicting ancestor, 0 for none.
Check_circular(all, self) == FindConflict(all, self, all[self].parent)

\* The error_lines of _raise_circular_reference_error(), in the order they
\* are appended: from `s` up to the conflicting step.
RECURSIVE ErrorLines(_, _, _, _, _)
ErrorLines(all, self, s, conflict, values) ==
    IF s = conflict
    THEN << >>
    ELSE LET referee == IF all[s].parent # 0
                        THEN all[all[s].parent].referee
                        ELSE all[self].referee
         IN  << [ provenance |-> values[referee[1]].provenance,
                  referee |-> referee[1],
                  refers_to |-> all[s].referee[1] ] >>
                 \o ErrorLines(all, self, all[s].parent, conflict, values)

\* A faulty Reversed: the lines are left in the order they were appended.
Reversed_Not(seq) == seq

\* reversed(seq)
RECURSIVE Reversed(_)
Reversed(seq) ==
    IF seq = << >> THEN << >> ELSE Append(Reversed(Tail(seq)), Head(seq))

\* The LoadError of ResolutionStep._raise_circular_reference_error()
Circular_reference_error(all, self, conflict, values) ==
    [ reason |-> "CIRCULAR_REFERENCE_VARIABLE",
      varname |-> all[self].referee[1],
      provenance |-> None,
      detail |-> Reversed(ErrorLines(all, self, self, conflict, values)) ]

\* A faulty Undefined_variable_error: the provenance of the referee is not
\* looked up; the message has the provenance of the caller.
Undefined_variable_error_Caller(values, varname, referee, provenance) ==
    [ reason |-> "UNRESOLVED_VARIABLE", varname |-> varname,
      provenance |-> provenance, detail |-> << >> ]

\* Variables._get_checked_value(): the LoadError it raises for a varname
\* that is no key, with the provenance its message starts with.
Undefined_variable_error(values, varname, referee, provenance) ==
    LET referee_value == IF referee # None /\ referee[1] \in DOMAIN values
                         THEN Some(values[referee[1]])
                         ELSE None
    IN  [ reason |-> "UNRESOLVED_VARIABLE",
          varname |-> varname,
          provenance |-> IF referee_value # None
                         THEN referee_value[1].provenance
                         ELSE provenance,
          detail |-> << >> ]

\* ------------------------------------------------------------------------
\* Document trees
\* ------------------------------------------------------------------------

\* The child of a sequence or mapping node at index i.
Child(n, i) == IF n.type = "sequence" THEN n.value[i] ELSE n.value[i].node

\* A faulty LeafPaths: _expand() does not call itself on the entries of a
\* sequence or a mapping; only the scalars among them are substituted.
LeafPaths_Shallow(n) ==
    IF n.type = "scalar"
    THEN << << >> >>
    ELSE LET scalars == SelectSeq([ i \in DOMAIN n.value |-> i ],
                                  LAMBDA i : Child(n, i).type = "scalar")
         IN  [ j \in DOMAIN scalars |-> << scalars[j] >> ]

\* The scalars of a node, each as the path of indexes that leads to it, in
\* the order Variables._expand() visits them.
RECURSIVE LeafPaths(_)
RECURSIVE LeafPathsFrom(_, _)
LeafPaths(n) ==
    IF n.type = "scalar" THEN << << >> >> ELSE LeafPathsFrom(n, 1)

LeafPathsFrom(n, i) ==
    IF i > Len(n.value)
    THEN << >>
    ELSE LET below == LeafPaths(Child(n, i))
         IN  [ j \in DOMAIN below |-> << i >> \o below[j] ] \o LeafPathsFrom(n, i + 1)

RECURSIVE NodeAt(_, _)
NodeAt(n, path) ==
    IF path = << >> THEN n ELSE NodeAt(Child(n, Head(path)), Tail(path))

\* The tree n after `(<ScalarNode> node).value = text` on the scalar at path.
RECURSIVE SetScalar(_, _, _)
SetScalar(n, path, text) ==
    IF path = << >>
    THEN [ n EXCEPT !.value = text ]
    ELSE LET i == Head(path)
             new == SetScalar(Child(n, i), Tail(path), text)
         IN  IF n.type = "sequence"
             THEN [ n EXCEPT !.value[i] = new ]
             ELSE [ n EXCEPT !.value[i].node = new ]


\* ------------------------------------------------------------------------
\* How a call ends
\* ------------------------------------------------------------------------

store == << node, _values, keys, copy, first, nvalues, other >>

table == << VALUE_CLASS_TABLE, nclasses, threads >>

locals == << steps, step, this_step, varnames, deps, first_iteration >>

\* The locals of _resolve() are gone when it returns or raises.
LocalsGone ==
    /\ args' = [ name |-> << >>, provenance |-> None ]
    /\ steps' = << >>
    /\ step' = 0
    /\ this_step' = 0
    /\ varnames' = { }
    /\ deps' = << >>
    /\ first_iteration' = TRUE

\* How the running public method ends.
Result(frame, kind, value, error, caught) ==
    [ op |-> frame.kind, name |-> frame.name, node |-> frame.node, kind |-> kind,
      value |-> value, error |-> error, caught |-> caught, doc |-> frame.doc ]

\* The running public method returns to its caller, or raises.
Finish(res) ==
    /\ pc' = "idle"
    /\ op' = NoOp
    /\ result' = res

\* A faulty Variables_get_except: the test of the reason is inverted.
Variables_get_except_Inverted(e) ==
    IF e.reason # "UNRESOLVED_VARIABLE" THEN "none" ELSE "error"

\* Variables.get(): what the call returns once `except LoadError as e` has
\* caught e.  Only the UNRESOLVED_VARIABLE branch has a return statement;
\* for any other reason the except block ends, and so does the function,
\* which then returns None as well.
Variables_get_except(e) ==
    IF e.reason = "UNRESOLVED_VARIABLE" THEN "none" ELSE "none"

\* _resolve() returns `ret`, a string or None, to the public method that
\* called it: __getitem__, get and ValueIterator.__next__ return it, the
\* loops of subst and check go on.
Resolve_returns(ret) ==
    /\ LocalsGone
    /\ CASE op.kind \in { "lookup", "get", "iter" } ->
                IF ret = None
                THEN Finish(Result(op, "none", << >>, NoError, ""))
                ELSE Finish(Result(op, "str", ret[1], NoError, ""))
         [] op.kind \in { "subst", "expand" } ->
                pc' = "subst" /\ UNCHANGED << op, result >>
         [] op.kind = "check" ->
                pc' = "check" /\ UNCHANGED << op, result >>

\* _resolve() raises the LoadError e: get catches it, the others let it
\* through.
Resolve_raises(e) ==
    /\ LocalsGone
    /\ IF op.kind = "get"
       THEN Finish(Result(op, Variables_get_except(e), << >>, NoError, e.reason))
       ELSE Finish(Result(op, "error", << >>, e, ""))

\* Value.resolve() raises an exception that is no LoadError: no method
\* catches it.
Resolve_faults(exception) ==
    /\ LocalsGone
    /\ Finish(Result(op, "fault", << >>, [ NoError EXCEPT !.reason = exception ], ""))

\* ------------------------------------------------------------------------
\* Variables._resolve(name, provenance)
\* ------------------------------------------------------------------------

\* Lines 246-250: the locals, and the first step.
ResolveEnter ==
    /\ pc = "call"
    /\ pc' = "while"
    /\ deps' = << >>
    /\ first_iteration' = TRUE
    /\ steps' = << ResolutionStep_init(None, { args.name }, 0) >>
    /\ step' = 1
    /\ this_step' = 0
    /\ varnames' = { }
    /\ pre_resolve' = Memo
    /\ UNCHANGED << store, table, op, args, iter, result, pre >>

\* Where _resolve() is once the `for` loop over this_step.varnames has
\* `left` to iterate and the stack is at `top`.
AfterVarname(left, top) ==
    IF left # { } THEN "for" ELSE IF top # 0 THEN "while" ELSE "deps"

\* One iteration of `while step:`, up to its `for` loop: the step is taken
\* off the stack and checked for a circular reference.
StepPop ==
    /\ pc = "while"
    /\ step # 0
    /\ LET conflict == Check_circular(steps, step)
       IN  IF conflict # 0
           THEN /\ Resolve_raises(Circular_reference_error(steps, step, conflict, _values))
                /\ UNCHANGED << store, table, iter, pre, pre_resolve >>
           ELSE /\ this_step' = step
                /\ step' = steps[step].prev
                /\ varnames' = steps[step].varnames
                /\ pc' = AfterVarname(steps[step].varnames, steps[step].prev)
                /\ UNCHANGED << store, table, op, args, steps, deps, first_iteration,
                                iter, result, pre, pre_resolve >>

\* A faulty NewStep: the parent of the new step is the step on top of the
\* stack, where there is one, as its prev is.
NewStep_ParentIsPrev(iter_name, iter_value_deps) ==
    [ ResolutionStep_init(Some(iter_name), iter_value_deps,
                          IF step # 0 THEN step ELSE this_step)
        EXCEPT !.prev = step ]

\* The step _resolve() queues for the dependencies of iter_name.
NewStep(iter_name, iter_value_deps) ==
    [ ResolutionStep_init(Some(iter_name), iter_value_deps, this_step)
        EXCEPT !.prev = step ]

\* A faulty Earliest_return: the early return is never taken.
Earliest_return_Never(is_first, iter_value) == FALSE

\* `if first_iteration: if iter_value._resolved is not None:`, the earliest
\* return for an already resolved value.
Earliest_return(is_first, iter_value) == is_first /\ iter_value._resolved # None

\* A faulty Queue_value: a Value that is queued already is not queued
\* again, and so gets no new step either.
Queue_value_Once(values, d, iter_name) ==
    LET queued == /\ values[iter_name]._resolved = None
                  /\ \A i \in DOMAIN d : d[i] # iter_name
    IN  [ values |-> values,
          deps |-> IF queued THEN Append(d, iter_name) ELSE d,
          queued |-> queued ]

\* A faulty Queue_value: a Value that refers to no variable is resolved on
\* the spot instead of being queued.
Queue_value_Eager(values, d, iter_name) ==
    LET v == values[iter_name]
    IN  IF v._resolved = None /\ v._value_class.variable_names = { }
        THEN [ values |-> [ values EXCEPT ![iter_name]._resolved =
                                Some(Value_resolve(v, values).str) ],
               deps |-> d,
               queued |-> FALSE ]
        ELSE [ values |-> values,
               deps |-> IF v._resolved = None THEN Append(d, iter_name) ELSE d,
               queued |-> v._resolved = None ]

\* `if iter_value._resolved is None: deps.append(iter_value)`: the dict and
\* the list after it, and whether the body of the `if` runs.  No Value is
\* written here.
Queue_value(values, d, iter_name) ==
    LET queued == values[iter_name]._resolved = None
    IN  [ values |-> values,
          deps |-> IF queued THEN Append(d, iter_name) ELSE d,
          queued |-> queued ]

\* One iteration of `for iter_name_object in this_step.varnames:`.  A set
\* is iterated in no order the language defines: any name not yet
\* iterated may be the next.
Visit ==
    /\ pc = "for"
    /\ \E iter_name \in varnames :
         IF iter_name \notin DOMAIN _values
         THEN /\ Resolve_raises(Undefined_variable_error(_values, iter_name,
                                    steps[this_step].referee, args.provenance))
              /\ UNCHANGED << store, table, iter, pre, pre_resolve >>
         ELSE LET iter_value == _values[iter_name]
                  iter_value_deps == Value_dependencies(iter_value)
                  queued == Queue_value(_values, deps, iter_name)
                  pushed == queued.queued /\ iter_value_deps # { }
                  top == IF pushed THEN Len(steps) + 1 ELSE step
              IN  IF Earliest_return(first_iteration, iter_value)
                  THEN /\ Resolve_returns(Some(Value_resolve(iter_value, _values).str))
                       /\ UNCHANGED << store, table, iter, pre, pre_resolve >>
                  ELSE /\ first_iteration' = FALSE
                       /\ deps' = queued.deps
                       /\ _values' = queued.values
                       /\ steps' = IF pushed
                                   THEN Append(steps, NewStep(iter_name, iter_value_deps))
                                   ELSE steps
                       /\ step' = top
                       /\ varnames' = varnames \ { iter_name }
                       /\ pc' = AfterVarname(varnames \ { iter_name }, top)
                       /\ UNCHANGED << node, keys, copy, first, nvalues, other, table, op, args,
                                       this_step, iter, result, pre, pre_resolve >>

\* A faulty Deps_pop, deps.pop(0): the Values are resolved in the order
\* they were queued.
Deps_pop_First(d) == [ value |-> d[1], left |-> Tail(d) ]

\* deps.pop(): the Value taken and the list left.
Deps_pop(d) == [ value |-> d[Len(d)], left |-> SubSeq(d, 1, Len(d) - 1) ]

\* One iteration of `while deps:`; the return follows the last one.  With
\* nothing queued the loop is skipped and resolved_value is returned as it
\* was declared: None.
Finalize ==
    /\ pc = "deps"
    /\ IF deps = << >>
       THEN /\ Resolve_returns(None)
            /\ UNCHANGED << store, table, iter, pre, pre_resolve >>
       ELSE
       LET popped == Deps_pop(deps)
           resolved == Value_resolve(_values[popped.value], _values)
       IN  IF resolved.raised # ""
           THEN /\ Resolve_faults(resolved.raised)
                /\ UNCHANGED << store, table, iter, pre, pre_resolve >>
           ELSE /\ _values' = [ _values EXCEPT ![popped.value]._resolved = Some(resolved.str) ]
                /\ IF popped.left = << >>
                   THEN Resolve_returns(Some(resolved.str))
                   ELSE /\ deps' = popped.left
                        /\ UNCHANGED << pc, op, args, steps, step, this_step, varnames,
                                        first_iteration, result >>
                /\ UNCHANGED << node, keys, copy, first, nvalues, other, table, iter, pre, pre_resolve >>


\* ------------------------------------------------------------------------
\* The public methods
\* ------------------------------------------------------------------------

\* The names callers ask for: the variables of the element, a name it does
\* not define, and max-jobs where the element says notparallel.
QueryNames ==
    DOMAIN _values \cup { Missing }
        \cup (IF NotParallel \in MappingKeys(node) THEN { MaxJobs } ELSE { })

\* A public method starts: `frame` is its frame, `at` where it starts.
Begin(frame, at) ==
    /\ pc = "idle"
    /\ pc' = at
    /\ op' = frame
    /\ pre' = Memo
    /\ result' = NoResult

\* A faulty Variables_contains: a name counts as contained once it has a
\* resolved value.
Variables_contains_Resolved(values, name) ==
    name \in DOMAIN values /\ values[name]._resolved # None

\* `name in self._values`
Variables_contains(values, name) == name \in DOMAIN values

\* Variables.__contains__(name)
Contains(name) ==
    /\ pc = "idle"
    /\ result' = [ NoResult EXCEPT !.op = "contains", !.name = name,
                                   !.kind = IF Variables_contains(_values, name)
                                            THEN "True" ELSE "False" ]
    /\ pre' = Memo
    /\ UNCHANGED << store, table, pc, op, args, locals, iter, pre_resolve >>

\* Variables.__getitem__(name)
Lookup(name) ==
    /\ Begin([ NoOp EXCEPT !.kind = "lookup", !.name = name ], "call")
    /\ args' = [ name |-> name, provenance |-> None ]
    /\ UNCHANGED << store, table, locals, iter, pre_resolve >>

\* Variables.get(name), up to its call of _resolve()
Get(name) ==
    /\ Begin([ NoOp EXCEPT !.kind = "get", !.name = name ], "call")
    /\ args' = [ name |-> name, provenance |-> None ]
    /\ UNCHANGED << store, table, locals, iter, pre_resolve >>

\* A faulty SubstFrame: the loop that resolves the dependencies of the
\* value is left out of subst().
SubstFrame_Unresolved(frame, n, made) ==
    [ frame EXCEPT !.node = n, !.value = made.value, !.pending = { } ]

\* The frame of subst(n) before its loop: value = Value(); value.init(n),
\* and the dependencies the loop will iterate.
SubstFrame(frame, n, made) ==
    [ frame EXCEPT !.node = n, !.value = made.value,
                   !.pending = Value_dependencies(made.value) ]

\* Variables.subst(node), up to its loop.
Subst(n) ==
    LET made == Value_init(n, VALUE_CLASS_TABLE, nclasses)
    IN  /\ Begin(SubstFrame([ NoOp EXCEPT !.kind = "subst" ], n, made), "subst")
        /\ VALUE_CLASS_TABLE' = made.table
        /\ nclasses' = made.n
        /\ UNCHANGED << store, threads, args, locals, iter, pre_resolve >>

\* `for dep_name_object in value.dependencies():` of subst(): the next
\* dependency is resolved, in no defined order, and after the last one
\* value.resolve() gives the string, which expand() stores in the scalar.
SubstLoop ==
    /\ pc = "subst"
    /\ IF op.pending # { }
       THEN \E dep_name \in op.pending :
              /\ args' = [ name |-> dep_name, provenance |-> op.node.provenance ]
              /\ op' = [ op EXCEPT !.pending = op.pending \ { dep_name } ]
              /\ pc' = "call"
              /\ UNCHANGED << store, table, locals, iter, result, pre, pre_resolve >>
       ELSE LET resolved == Value_resolve(op.value, _values)
            IN  /\ IF resolved.raised # ""
                   THEN Finish(Result(op, "fault", << >>,
                                      [ NoError EXCEPT !.reason = resolved.raised ], ""))
                   ELSE IF op.kind = "subst"
                   THEN Finish(Result(op, "str", resolved.str, NoError, ""))
                   ELSE /\ op' = [ op EXCEPT !.doc = SetScalar(op.doc, op.path, resolved.str) ]
                        /\ pc' = "expand"
                        /\ UNCHANGED result
                /\ UNCHANGED << store, table, args, locals, iter, pre, pre_resolve >>

\* A faulty Check: every Value is reset before the loop, to resolve the
\* whole store afresh.
Check_Afresh ==
    /\ pc = "idle"
    /\ pc' = "check"
    /\ op' = [ kind |-> "check", name |-> << >>, node |-> ScalarNode(<< >>, None),
               value |-> [ vid |-> 0, provenance |-> None,
                           _value_class |-> ValueClass_init(<< >>, 0),
                           _resolved |-> None ],
               pending |-> { }, rest |-> keys, doc |-> ScalarNode(<< >>, None),
               leaves |-> << >>, path |-> << >> ]
    /\ _values' = [ k \in DOMAIN _values |-> [ _values[k] EXCEPT !._resolved = None ] ]
    /\ pre' = [ k \in DOMAIN _values |-> None ]
    /\ result' = [ op |-> "", name |-> << >>, node |-> ScalarNode(<< >>, None),
                   kind |-> "", value |-> << >>,
                   error |-> [ reason |-> "", varname |-> << >>, provenance |-> None,
                               detail |-> << >> ],
                   caught |-> "", doc |-> ScalarNode(<< >>, None) ]
    /\ UNCHANGED << node, keys, copy, first, nvalues, other, table, args, steps,
                    step, this_step, varnames, deps, first_iteration, iter, pre_resolve >>

\* A faulty Check: the variables that refer to no other are left out of
\* the loop, as having nothing to validate.
Check_Skipping ==
    /\ Begin([ NoOp EXCEPT !.kind = "check",
                           !.rest = SelectSeq(keys,
                               LAMBDA k : _values[k]._value_class.variable_names # { }) ],
             "check")
    /\ UNCHANGED << store, table, args, locals, iter, pre_resolve >>

\* Variables.check(), up to its loop.
Check ==
    /\ Begin([ NoOp EXCEPT !.kind = "check", !.rest = keys ], "check")
    /\ UNCHANGED << store, table, args, locals, iter, pre_resolve >>

\* `for key in self._values.keys():` of check()
CheckLoop ==
    /\ pc = "check"
    /\ IF op.rest # << >>
       THEN /\ args' = [ name |-> Head(op.rest), provenance |-> None ]
            /\ op' = [ op EXCEPT !.rest = Tail(op.rest) ]
            /\ pc' = "call"
            /\ UNCHANGED result
       ELSE /\ Finish(Result(op, "none", << >>, NoError, ""))
            /\ UNCHANGED args
    /\ UNCHANGED << store, table, locals, iter, pre, pre_resolve >>

\* Variables.expand(node), up to the first scalar.
Expand(doc) ==
    /\ Begin([ NoOp EXCEPT !.kind = "expand", !.doc = doc, !.leaves = LeafPaths(doc) ],
             "expand")
    /\ UNCHANGED << store, table, args, locals, iter, pre_resolve >>

\* Variables._expand() reaches the next scalar and calls subst() on it, or
\* has walked the whole node.
ExpandLoop ==
    /\ pc = "expand"
    /\ IF op.leaves # << >>
       THEN LET path == Head(op.leaves)
                n == NodeAt(op.doc, path)
                made == Value_init(n, VALUE_CLASS_TABLE, nclasses)
            IN  /\ op' = SubstFrame([ op EXCEPT !.leaves = Tail(op.leaves), !.path = path ],
                                    n, made)
                /\ pc' = "subst"
                /\ VALUE_CLASS_TABLE' = made.table
                /\ nclasses' = made.n
                /\ UNCHANGED << threads, result >>
       ELSE /\ Finish(Result(op, "none", << >>, NoError, ""))
            /\ UNCHANGED table
    /\ UNCHANGED << store, args, locals, iter, pre, pre_resolve >>

\* A faulty Iter: the Variables keeps one iterator, and a new call goes on
\* where the last one stopped.
Iter_Resume ==
    /\ pc = "idle"
    /\ iter' = IF iter = 0 THEN 1 ELSE iter
    /\ result' = [ NoResult EXCEPT !.op = "__iter__", !.kind = "iterator" ]
    /\ pre' = Memo
    /\ UNCHANGED << store, table, pc, op, args, locals, pre_resolve >>

\* Variables.__iter__(): a new ValueIterator over the keys.
Iter ==
    /\ pc = "idle"
    /\ iter' = 1
    /\ result' = [ NoResult EXCEPT !.op = "__iter__", !.kind = "iterator" ]
    /\ pre' = Memo
    /\ UNCHANGED << store, table, pc, op, args, locals, pre_resolve >>

\* ValueIterator.__next__(): next(self._iter) ends the iteration or gives
\* the name that is then looked up.
IterNext ==
    /\ iter # 0
    /\ IF iter > Len(keys)
       THEN /\ pc = "idle"
            /\ result' = [ NoResult EXCEPT !.op = "iter", !.kind = "stop" ]
            /\ pre' = Memo
            /\ UNCHANGED << pc, op, args, iter >>
       ELSE /\ Begin([ NoOp EXCEPT !.kind = "iter", !.name = keys[iter] ], "call")
            /\ args' = [ name |-> keys[iter], provenance |-> None ]
            /\ iter' = iter + 1
    /\ UNCHANGED << store, table, locals, pre_resolve >>

\* ------------------------------------------------------------------------
\* The element at work: any public method, with any argument, any number
\* of times.
\* ------------------------------------------------------------------------

Next ==
    \/ \E name \in QueryNames : Lookup(name)
    \/ \E name \in QueryNames : Get(name)
    \/ \E name \in QueryNames : Contains(name)
    \/ \E n \in SubstNodes : Subst(n)
    \/ \E doc \in Docs : Expand(doc)
    \/ Check
    \/ Iter
    \/ IterNext
    \/ SubstLoop
    \/ CheckLoop
    \/ ExpandLoop
    \/ ResolveEnter
    \/ StepPop
    \/ Visit
    \/ Finalize

Spec == Init /\ [][Next]_vars


\* ------------------------------------------------------------------------
\* What the claims speak of: the reference graph of the store
\* ------------------------------------------------------------------------

\* The names the variable `name` refers to; none when it is not defined.
Refs(name) ==
    IF name \in DOMAIN _values THEN _values[name]._value_class.variable_names ELSE { }

RECURSIVE ReachFrom(_, _)
ReachFrom(frontier, seen) ==
    IF frontier \subseteq seen
    THEN seen
    ELSE ReachFrom(UNION { Refs(n) : n \in frontier \ seen }, seen \cup frontier)

\* `name` and every name it refers to, directly or transitively.
Reach(name) == ReachFrom({ name }, { })

\* `name` refers to itself through a chain of one or more references.
OnCycle(name) == name \in ReachFrom(Refs(name), { })

ReachesCycle(name) == \E n \in Reach(name) : OnCycle(n)

ReachesUndefined(name) == \E n \in Reach(name) : n \notin DOMAIN _values

\* Every reference of every variable of the store is to a defined name.
AllDefined == \A k \in DOMAIN _values : Refs(k) \subseteq DOMAIN _values

Resolvable(name) == ~ReachesCycle(name) /\ ~ReachesUndefined(name)

\* The reference expansion of a resolvable variable: its literal parts and
\* the expansions of the variables it refers to, in order.
RECURSIVE Expansion(_)
Expansion(name) ==
    LET parts == _values[name]._value_class.parts
    IN  Join([ i \in DOMAIN parts |->
                 IF parts[i].is_variable THEN Expansion(parts[i].text)
                 ELSE parts[i].text ])

Raised(reason) == result.kind = "error" /\ result.error.reason = reason

Ended(method) == pc = "idle" /\ result.op = method

\* ------------------------------------------------------------------------
\* The claims
\* ------------------------------------------------------------------------

\* C1: get(name) does not suppress circular-reference failures: when
\* resolving `name` meets a circular reference and no undefined name, get
\* ends in a circular-reference error, not in the absent marker or a string.
C1_GetRaisesCircular ==
    (Ended("get") /\ ReachesCycle(result.name) /\ ~ReachesUndefined(result.name))
        => Raised("CIRCULAR_REFERENCE_VARIABLE")

\* C2, as claimed: lookup(name) fails with an undefined-variable error
\* whenever `name` is absent or refers, directly or transitively, to an
\* absent name, and get(name) returns the absent marker in those cases.
C2_UndefinedAlwaysReported ==
    /\ (Ended("lookup") /\ ReachesUndefined(result.name))
           => Raised("UNRESOLVED_VARIABLE")
    /\ (Ended("get") /\ ReachesUndefined(result.name)) => result.kind = "none"

\* C2, amended: when `name` is absent or refers, directly or transitively,
\* to an absent name, lookup(name) fails: with an undefined-variable error
\* when no circular reference can be reached from `name`, and with that or
\* a circular-reference error when one can; get(name) returns the absent
\* marker in all those cases, having caught the error lookup(name) may
\* fail with.
C2_UndefinedPropagation ==
    /\ (Ended("lookup") /\ ReachesUndefined(result.name))
           => /\ result.kind = "error"
              /\ result.error.reason \in { "UNRESOLVED_VARIABLE",
                                           "CIRCULAR_REFERENCE_VARIABLE" }
              /\ ~ReachesCycle(result.name) => Raised("UNRESOLVED_VARIABLE")
    /\ (Ended("get") /\ ReachesUndefined(result.name))
           => /\ result.kind = "none"
              /\ result.caught \in { "UNRESOLVED_VARIABLE",
                                     "CIRCULAR_REFERENCE_VARIABLE" }
              /\ ~ReachesCycle(result.name) => result.caught = "UNRESOLVED_VARIABLE"

\* A lookup of the defined variable a fails as undefined for a name that a
\* does not refer to itself.
C2_Witness ==
    /\ Ended("lookup")
    /\ result.name = A
    /\ Missing \notin Refs(A)
    /\ Raised("UNRESOLVED_VARIABLE")
    /\ result.error.varname = Missing

\* C3: in a store whose references are all defined, lookup(name) fails with
\* a circular-reference error whenever `name` reaches a variable that
\* refers to itself through a chain of any length; it returns no string.
C3_CycleDetection ==
    (Ended("lookup") /\ AllDefined /\ result.name \in DOMAIN _values
                     /\ ReachesCycle(result.name))
        => Raised("CIRCULAR_REFERENCE_VARIABLE")

\* The lookup of a variable that is on no cycle itself but reaches one.
C3_Witness ==
    /\ Ended("lookup")
    /\ AllDefined
    /\ result.name \in DOMAIN _values
    /\ ~OnCycle(result.name)
    /\ ReachesCycle(result.name)
    /\ Raised("CIRCULAR_REFERENCE_VARIABLE")

\* C4: lookup(name) of a variable whose references are all defined and
\* acyclic returns exactly the reference expansion of its template.
C4_Concatenation ==
    (Ended("lookup") /\ result.name \in DOMAIN _values /\ Resolvable(result.name))
        => result.kind = "str" /\ result.value = Expansion(result.name)

\* a = "%{b}-%{c}", b = "%{c}y", c = "z": lookup(a) gave "zy-z".
C4_Witness ==
    /\ Ended("lookup")
    /\ result.name = A
    /\ Refs(A) = { B, C }
    /\ Refs(B) = { C }
    /\ result.kind = "str"
    /\ result.value = << "z", "y", "-", "z" >>

\* C5: once the memo of a Value is set, no step of any call clears it or
\* changes it to another string.
C5_WriteOnceMemo ==
    [][ \A k \in DOMAIN _values :
          _values[k]._resolved # None
              => /\ k \in DOMAIN _values'
                 /\ _values'[k]._resolved = _values[k]._resolved ]_vars

\* Value.resolve() is about to be called on a Value whose memo is set: it
\* was queued more than once.
C5_Witness ==
    /\ pc = "deps"
    /\ \E i \in DOMAIN deps : _values[deps[i]]._resolved # None

\* C6: a lookup that fails with an undefined-variable or circular-reference
\* error leaves every memo as it was before the call; no memo is written
\* while the first loop of _resolve(), which raises the errors, runs.
C6_FailedLookupKeepsMemo ==
    /\ (Ended("lookup") /\ result.kind = "error") => Memo = pre
    /\ (op.kind = "lookup" /\ pc \in { "call", "while", "for" }) => Memo = pre

\* A failed lookup that had reached, and queued, a variable that can be
\* resolved: that variable is still unresolved.
C6_Witness ==
    /\ Ended("lookup")
    /\ result.kind = "error"
    /\ \E k \in Reach(result.name) \cap DOMAIN _values :
         Resolvable(k) /\ _values[k]._resolved = None


\* C7, as claimed: when subst, check, the iterator or expand fails, every
\* Value that was unresolved before the call is unresolved after it.
C7_FailedCallResolvesNothing ==
    (pc = "idle" /\ result.op \in { "subst", "check", "iter", "expand" }
                 /\ result.kind = "error")
        => \A k \in DOMAIN _values : pre[k] = None => _values[k]._resolved = None

\* C7, amended: when subst, check, the iterator or expand fails, the
\* _resolve() call that raised has written no memo, and every Value that
\* reaches an undefined name or a cycle is still unresolved; the Values
\* the call resolved before, in its _resolve() calls that returned, are
\* resolvable and hold their reference expansion.
C7_FailedResolveWritesNothing ==
    (pc = "idle" /\ result.op \in { "subst", "check", "iter", "expand" }
                 /\ result.kind = "error")
        => /\ Memo = pre_resolve
           /\ \A k \in DOMAIN _values :
                /\ ~Resolvable(k) => _values[k]._resolved = None
                /\ (pre[k] = None /\ _values[k]._resolved # None)
                       => Resolvable(k) /\ _values[k]._resolved = Some(Expansion(k))

\* A failed call that had resolved a Value before it failed.
C7_Witness ==
    /\ pc = "idle"
    /\ result.op \in { "subst", "check", "expand" }
    /\ result.kind = "error"
    /\ \E k \in DOMAIN _values : pre[k] = None /\ _values[k]._resolved # None

\* C8: a successful lookup leaves the memo of the variable at the string
\* it returned; a lookup of a variable whose memo is set returns that
\* string by the early return: it pushes no ResolutionStep, queues no
\* Value and changes no memo.
C8_LookupIdempotent ==
    /\ (Ended("lookup") /\ result.kind = "str")
           => _values[result.name]._resolved = Some(result.value)
    /\ (op.kind = "lookup" /\ op.name \in DOMAIN _values /\ pre[op.name] # None)
           => Len(steps) <= 1 /\ deps = << >> /\ Memo = pre
    /\ (Ended("lookup") /\ result.name \in DOMAIN _values /\ pre[result.name] # None)
           => /\ result.kind = "str"
              /\ result.value = pre[result.name][1]
              /\ Memo = pre

\* The lookup of a variable that refers to others and was resolved before
\* the call returned its memo.
C8_Witness ==
    /\ Ended("lookup")
    /\ result.name \in DOMAIN _values
    /\ Refs(result.name) # { }
    /\ pre[result.name] # None
    /\ result.kind = "str"

\* The input says notparallel, and says it is true.
NotParallelGiven ==
    /\ NotParallel \in MappingKeys(node)
    /\ MappingGet(node, NotParallel).value = << "T", "r", "u", "e" >>

\* The template a ValueClass was parsed from: its parts, each variable
\* part in its braces.
Unparsed(class) ==
    Join([ i \in DOMAIN class.parts |->
             IF class.parts[i].is_variable THEN Ref(class.parts[i].text)
             ELSE class.parts[i].text ])

\* C10: with a true notparallel in the input, max-jobs is defined and
\* lookup("max-jobs") returns "1" whatever the input gave for max-jobs;
\* with notparallel absent or false, max-jobs keeps the template and the
\* provenance the input gave, and stays undefined where it gave none.
C10_NotParallelOverride ==
    IF NotParallelGiven
    THEN /\ MaxJobs \in DOMAIN _values
         /\ (Ended("lookup") /\ result.name = MaxJobs)
                => result.kind = "str" /\ result.value = << "1" >>
    ELSE IF MaxJobs \in MappingKeys(node)
         THEN /\ MaxJobs \in DOMAIN _values
              /\ Unparsed(_values[MaxJobs]._value_class) = MappingGet(node, MaxJobs).value
              /\ _values[MaxJobs].provenance = MappingGet(node, MaxJobs).provenance
         ELSE MaxJobs \notin DOMAIN _values

\* notparallel = True, max-jobs = "4": lookup("max-jobs") gave "1".
C10_Witness ==
    /\ NotParallelGiven
    /\ MaxJobs \in MappingKeys(node)
    /\ MappingGet(node, MaxJobs).value = << "4" >>
    /\ Ended("lookup")
    /\ result.name = MaxJobs
    /\ result.value = << "1" >>

\* ------------------------------------------------------------------------
\* Two copies of one store
\* ------------------------------------------------------------------------

\* The use of the first copy ends with a lookup; a second Variables is
\* constructed from the same node, in the same process.
NewCopy ==
    /\ pc = "idle"
    /\ copy = 1
    /\ result.op = "lookup"
    /\ LET made == Variables_init(node, VALUE_CLASS_TABLE, nclasses, nvalues)
           memo == [ k \in DOMAIN made.ret |-> made.ret[k]._resolved ]
       IN  /\ _values' = made.ret
           /\ keys' = made.keys
           /\ VALUE_CLASS_TABLE' = made.table
           /\ nclasses' = made.n
           /\ nvalues' = made.nv
           /\ pre' = memo
           /\ pre_resolve' = memo
    /\ copy' = 2
    /\ first' = [ result |-> result, pre |-> pre ]
    /\ result' = NoResult
    /\ UNCHANGED << node, other, threads, pc, op, args, locals, iter >>

NextTwo ==
    \/ \E name \in QueryNames : Lookup(name)
    \/ \E name \in QueryNames : Get(name)
    \/ \E n \in SubstNodes : Subst(n)
    \/ SubstLoop
    \/ ResolveEnter
    \/ StepPop
    \/ Visit
    \/ Finalize
    \/ NewCopy

\* Lookups, gets and substitutions on one copy of a store, then on another.
SpecTwo == Init /\ [][NextTwo]_vars

\* C9: the lookup of a variable on the second copy ends as its lookup on
\* the first copy did, whatever lookups, gets and substitutions came
\* before on either: both fail or both return, and then the same string.
C9_OrderIndependence ==
    (copy = 2 /\ Ended("lookup") /\ result.name = first.result.name)
        => /\ (result.kind = "str") = (first.result.kind = "str")
           /\ result.kind = "str" => result.value = first.result.value

\* The same lookup returned on both copies, from different memos: the
\* calls made before it differed.
C9_Witness ==
    /\ copy = 2
    /\ Ended("lookup")
    /\ result.name = first.result.name
    /\ Refs(result.name) # { }
    /\ result.kind = "str"
    /\ pre # first.pre


\* Every variable of the store can be resolved.
FullyResolvable == \A k \in DOMAIN _values : Resolvable(k)

\* C11: check() returns exactly when every stored variable is resolvable,
\* and then every Value is resolved, to its reference expansion; otherwise
\* it fails with an undefined-variable or a circular-reference error.
C11_CheckAll ==
    Ended("check")
        => IF FullyResolvable
           THEN /\ result.kind = "none"
                /\ \A k \in DOMAIN _values : _values[k]._resolved = Some(Expansion(k))
           ELSE /\ result.kind = "error"
                /\ result.error.reason \in { "UNRESOLVED_VARIABLE",
                                             "CIRCULAR_REFERENCE_VARIABLE" }

\* check() returned on a store of three variables, none resolved before,
\* one of which refers to the two others.
C11_Witness ==
    /\ Ended("check")
    /\ result.kind = "none"
    /\ Refs(A) = { B, C }
    /\ \A k \in DOMAIN _values : pre[k] = None /\ _values[k]._resolved # None

\* C12: on a fully resolvable store every call of the iterator's __next__
\* gives the name after the one the call before gave, in insertion order,
\* with the string lookup(name) returns, and ends after the last name,
\* when every Value is resolved; __iter__ starts at the first name again.
C12_IterateInOrder ==
    [][ /\ iter' # iter
            => \/ iter' = 1 /\ result'.op = "__iter__"
               \/ iter' = iter + 1 /\ op'.kind = "iter" /\ op'.name = keys[iter]
        /\ result'.op = "__iter__" => iter' = 1
        /\ (FullyResolvable /\ pc' = "idle" /\ result'.op = "iter")
            => IF result'.kind = "stop"
               THEN /\ iter' = Len(keys) + 1
                    /\ \A k \in DOMAIN _values : _values'[k]._resolved # None
               ELSE /\ result'.kind = "str"
                    /\ result'.name = keys[iter' - 1]
                    /\ result'.value = Expansion(result'.name)
      ]_vars

\* The iterator ended after it went through a store of three variables
\* with references.
C12_Witness ==
    /\ Ended("iter")
    /\ result.kind = "stop"
    /\ iter = 4
    /\ Refs(A) = { B, C }
    /\ FullyResolvable


\* The names a template refers to.
TemplateRefs(text) == ValueClass_init(text, 0).variable_names

\* The reference expansion of a template against the store: its literal
\* parts and the expansions of the variables it refers to, in order.
TemplateExpansion(text) ==
    LET parts == ValueClass_init(text, 0).parts
    IN  Join([ i \in DOMAIN parts |->
                 IF parts[i].is_variable THEN Expansion(parts[i].text)
                 ELSE parts[i].text ])

\* The keys the store has when its construction ends: those of the input,
\* and max-jobs where the input says notparallel.
ConstructionKeys ==
    MappingKeys(node) \cup (IF NotParallelGiven THEN { MaxJobs } ELSE { })

\* C13: subst() of a template whose references are all defined and acyclic
\* returns the literal parts of the template and the lookup values of the
\* variables it refers to, in order; the template is not added to the
\* store, whose keys are at any time those it had when constructed.
C13_SubstConcatenates ==
    /\ (Ended("subst") /\ \A n \in TemplateRefs(result.node.value) :
                              n \in DOMAIN _values /\ Resolvable(n))
           => /\ result.kind = "str"
              /\ result.value = TemplateExpansion(result.node.value)
    /\ DOMAIN _values = ConstructionKeys
    /\ { keys[i] : i \in DOMAIN keys } = ConstructionKeys
    /\ Len(keys) = Cardinality(ConstructionKeys)

\* subst("%{a}%{b}") returned with a = "%{b}-%{c}", b = "%{c}y", c = "z",
\* none of them resolved before.
C13_Witness ==
    /\ Ended("subst")
    /\ result.node = T1
    /\ result.kind = "str"
    /\ result.value = << "z", "y", "-", "z", "z", "y" >>
    /\ \A k \in DOMAIN _values : pre[k] = None

\* The scalars of a tree.
RECURSIVE Scalars(_)
Scalars(n) ==
    IF n.type = "scalar"
    THEN { n }
    ELSE UNION { Scalars(Child(n, i)) : i \in DOMAIN n.value }

\* The tree with the text of every scalar replaced by its reference
\* expansion, and nothing else changed.
RECURSIVE ExpandedTree(_)
ExpandedTree(n) ==
    CASE n.type = "scalar" -> [ n EXCEPT !.value = TemplateExpansion(n.value) ]
      [] n.type = "sequence" ->
            [ n EXCEPT !.value = [ i \in DOMAIN n.value |-> ExpandedTree(n.value[i]) ] ]
      [] n.type = "mapping" ->
            [ n EXCEPT !.value = [ i \in DOMAIN n.value |->
                                     [ n.value[i] EXCEPT !.node = ExpandedTree(@) ] ] ]

\* The shape of a tree: its containers, keys, lengths, order and
\* provenances, with the text of every scalar left out.
RECURSIVE Shape(_)
Shape(n) ==
    CASE n.type = "scalar" -> [ n EXCEPT !.value = << >> ]
      [] n.type = "sequence" ->
            [ n EXCEPT !.value = [ i \in DOMAIN n.value |-> Shape(n.value[i]) ] ]
      [] n.type = "mapping" ->
            [ n EXCEPT !.value = [ i \in DOMAIN n.value |->
                                     [ n.value[i] EXCEPT !.node = Shape(@) ] ] ]

\* C14: expand() keeps the shape of the tree, whether it returns or fails;
\* on a tree whose scalars refer to resolvable variables only it returns,
\* and the text of every scalar, at any depth, is then what subst() gives
\* for the scalar: its reference expansion.
C14_ExpandInPlace ==
    Ended("expand")
        => /\ \E d \in Docs : Shape(d) = Shape(result.doc)
           /\ \A d \in Docs :
                (/\ Shape(d) = Shape(result.doc)
                 /\ \A leaf \in Scalars(d) : \A n \in TemplateRefs(leaf.value) :
                        n \in DOMAIN _values /\ Resolvable(n))
                    => result.kind = "none" /\ result.doc = ExpandedTree(d)

\* expand() returned on the mapping with a scalar and a sequence in it;
\* the scalar in the sequence reads "zy-zzy" now.
C14_Witness ==
    /\ Ended("expand")
    /\ result.kind = "none"
    /\ result.doc.type = "mapping"
    /\ result.doc.value[1].node.value = << "z", "!" >>
    /\ result.doc.value[2].node.value[1].value = << "z", "y", "-", "z", "z", "y" >>

\* C15: __contains__(name) gives True exactly for the keys of the store,
\* never fails, and changes no memo.
C15_ContainsIsMembership ==
    Ended("contains")
        => /\ result.kind \in { "True", "False" }
           /\ (result.kind = "True") = (result.name \in ConstructionKeys)
           /\ Memo = pre

\* __contains__ gave True for an unresolved variable that refers to itself.
C15_Witness ==
    /\ Ended("contains")
    /\ result.kind = "True"
    /\ OnCycle(result.name)
    /\ _values[result.name]._resolved = None

\* C20: in the second loop of _resolve() the Value at the end of deps, the
\* one Value.resolve() is called on next, refers only to variables that
\* are defined and have their memo set; the Value at the start of deps,
\* resolved last, is the requested variable; Value.resolve() never raises,
\* and the string returned is the memo of the requested variable.
C20_FinalizationOrder ==
    /\ (pc = "deps" /\ deps # << >>)
           => /\ \A n \in Refs(deps[Len(deps)]) :
                    n \in DOMAIN _values /\ _values[n]._resolved # None
              /\ deps[1] = args.name
    /\ result.kind # "fault"
    /\ (pc = "idle" /\ result.op \in { "lookup", "get", "iter" } /\ result.kind = "str")
           => _values[result.name]._resolved = Some(result.value)

\* The second loop starts with a Value queued twice, being referred to by
\* two variables, one of which was queued between its two entries.
C20_Witness ==
    /\ pc = "deps"
    /\ Len(deps) = 4
    /\ deps[2] = deps[4]
    /\ deps[4] \in Refs(deps[3])
    /\ _values[deps[4]]._resolved = None


\* ------------------------------------------------------------------------
\* Lookups that run to their end
\* ------------------------------------------------------------------------

NextLookup ==
    \/ \E name \in QueryNames : Lookup(name)
    \/ ResolveEnter
    \/ StepPop
    \/ Visit
    \/ Finalize

\* A step of the call that is running.
Running == ResolveEnter \/ StepPop \/ Visit \/ Finalize

\* Lookups on a store; a call that has started is not abandoned: there is
\* one thread, and it runs the code of the call it is in.
SpecLookup == Init /\ [][NextLookup]_vars /\ WF_vars(Running)

\* The number of steps from step s up its parents, s and the first step
\* included.
RECURSIVE ChainLen(_, _)
ChainLen(all, s) == IF s = 0 THEN 0 ELSE 1 + ChainLen(all, all[s].parent)

\* C19: every lookup ends, with a string or an error; the first loop of
\* _resolve() ends with an empty stack or an error; and no step has more
\* steps in its chain of parents, itself included, than the store has
\* variables, plus two.
C19_Termination ==
    /\ [](\A i \in DOMAIN steps :
            ChainLen(steps, i) <= Cardinality(DOMAIN _values) + 2)
    /\ [](pc = "deps" => step = 0)
    /\ (op.kind = "lookup")
           ~> (Ended("lookup") /\ result.kind \in { "str", "error" })
    /\ (pc \in { "while", "for" })
           ~> \/ pc = "deps" /\ step = 0
              \/ pc = "idle" /\ result.kind \in { "str", "error" }

\* A step whose chain of parents is as long as it can be: the first step,
\* one step for each variable of the store, and one for the variable that
\* closes the cycle.
C19_Witness ==
    /\ pc \in { "while", "for" }
    /\ \E i \in DOMAIN steps :
         ChainLen(steps, i) = Cardinality(DOMAIN _values) + 2


\* ------------------------------------------------------------------------
\* Two elements in one process
\* ------------------------------------------------------------------------

\* The elements a second Variables is constructed from.
IsoInputs ==
    { << InputItem(A, ta), InputItem(B, tb), InputItem(C, << "z" >>) >> :
        ta \in { Ref(B) \o << "-" >> \o Ref(C), Ref(B) },
        tb \in { << >>, Ref(C) \o << "y" >> } }

\* Two inputs give a variable the same text, with a reference in it to a
\* variable they define differently.
SharesTemplate(n1, n2) ==
    \E x \in MappingKeys(n1) \cap MappingKeys(n2) :
        /\ MappingGet(n1, x).value = MappingGet(n2, x).value
        /\ \E r \in TemplateRefs(MappingGet(n1, x).value) :
             /\ r \in MappingKeys(n1) \cap MappingKeys(n2)
             /\ MappingGet(n1, r).value # MappingGet(n2, r).value

\* The Values of a store as they are now: a Value object that is in the
\* store `current` as well has the memo it was given there.
HeapView(values, current) ==
    [ k \in DOMAIN values |->
        IF \E j \in DOMAIN current : current[j].vid = values[k].vid
        THEN [ values[k] EXCEPT !._resolved =
                 current[CHOOSE j \in DOMAIN current :
                             current[j].vid = values[k].vid]._resolved ]
        ELSE values[k] ]

\* Variables.__init__(n2) for another element, in the same process.
NewStore(n2) ==
    /\ pc = "idle"
    /\ other = NoStore
    /\ SharesTemplate(node, n2)
    /\ LET made == Variables_init(n2, VALUE_CLASS_TABLE, nclasses, nvalues)
       IN  /\ other' = [ node |-> n2, _values |-> made.ret, keys |-> made.keys ]
           /\ VALUE_CLASS_TABLE' = made.table
           /\ nclasses' = made.n
           /\ nvalues' = made.nv
    /\ UNCHANGED << node, _values, keys, copy, first, threads, pc, op, args, locals,
                    iter, result, pre, pre_resolve >>

\* The caller goes on with the Variables of the other element.
Switch ==
    /\ pc = "idle"
    /\ other # NoStore
    /\ node' = other.node
    /\ _values' = HeapView(other._values, _values)
    /\ keys' = other.keys
    /\ other' = [ node |-> node, _values |-> _values, keys |-> keys ]
    /\ result' = NoResult
    /\ pre' = [ k \in DOMAIN other._values |-> _values'[k]._resolved ]
    /\ pre_resolve' = pre'
    /\ UNCHANGED << copy, first, nvalues, table, pc, op, args, locals, iter >>

NextIso ==
    \/ \E name \in QueryNames : Lookup(name)
    \/ ResolveEnter
    \/ StepPop
    \/ Visit
    \/ Finalize
    \/ \E n \in SubstNodes : Subst(n)
    \/ SubstLoop
    \/ \E n2 \in IsoInputs : NewStore(n2)
    \/ Switch

\* Lookups and substitutions on the Variables of two elements of one
\* process.
SpecIso == Init /\ [][NextIso]_vars

\* The memos of the other store, as they are now.
OtherMemo ==
    LET view == HeapView(other._values, _values)
    IN  [ k \in DOMAIN view |-> view[k]._resolved ]

\* C16: no Value object is in two stores; no step of a call on one store
\* changes a memo of the other; and a lookup returns the reference
\* expansion of the variable in the store it is called on, also for a
\* variable that has the same text, and so the same ValueClass, in the
\* other store, where the variables it refers to are defined differently.
C16_StoreIsolation ==
    [][ /\ \A k \in DOMAIN _values' : \A j \in DOMAIN other'._values :
             _values'[k].vid # other'._values[j].vid
        /\ (other # NoStore /\ other'.node = other.node) => OtherMemo' = OtherMemo
        /\ ((Ended("lookup") /\ result.name \in DOMAIN _values /\ Resolvable(result.name))
                => (result.kind = "str" /\ result.value = Expansion(result.name)))'
      ]_vars

\* A lookup of a returned in one store; a has the same ValueClass in the
\* other store, where it is resolved to another string.
C16_Witness ==
    /\ other # NoStore
    /\ Ended("lookup")
    /\ result.name = A
    /\ result.kind = "str"
    /\ other._values[A]._value_class = _values[A]._value_class
    /\ other._values[A]._resolved # None
    /\ other._values[A]._resolved # _values[A]._resolved


\* The items _init_values() goes through for the input n.
ConstructionItems(n) ==
    IF MappingNode_get_bool(n, NotParallel, FALSE)
    THEN MappingNode_setitem(n, MaxJobs, << "1" >>)
    ELSE n

\* Every Value of the store built from n has the ValueClass the table
\* holds for its text.
SharesClasses(n, values) ==
    \A i \in DOMAIN ConstructionItems(n) :
        LET item == ConstructionItems(n)[i]
        IN  /\ item.node.value \in DOMAIN VALUE_CLASS_TABLE
            /\ values[item.key]._value_class = VALUE_CLASS_TABLE[item.node.value]

\* As many ValueClass objects were made as the table has strings, no
\* object under two strings; the Values of the stores, and the Value of a
\* running subst(), have the ValueClass the table holds for their text.
CacheShared ==
    /\ nclasses = Cardinality(DOMAIN VALUE_CLASS_TABLE)
    /\ \A str \in DOMAIN VALUE_CLASS_TABLE :
         /\ VALUE_CLASS_TABLE[str].oid \in 1 .. nclasses
         /\ \A t \in DOMAIN VALUE_CLASS_TABLE :
              t # str => VALUE_CLASS_TABLE[t].oid # VALUE_CLASS_TABLE[str].oid
    /\ SharesClasses(node, _values)
    /\ other # NoStore => SharesClasses(other.node, other._values)
    /\ op.kind = "subst"
         => /\ op.node.value \in DOMAIN VALUE_CLASS_TABLE
            /\ op.value._value_class = VALUE_CLASS_TABLE[op.node.value]

\* C17: with one thread, whatever stores are constructed and whatever
\* subst() calls are made, every string is parsed once at most, the table
\* holds one ValueClass for it, which is never removed nor replaced, and
\* every Value with that text has that ValueClass.
C17_CacheSharing ==
    [][ /\ CacheShared
        /\ \A str \in DOMAIN VALUE_CLASS_TABLE :
             /\ str \in DOMAIN VALUE_CLASS_TABLE'
             /\ VALUE_CLASS_TABLE'[str] = VALUE_CLASS_TABLE[str]
      ]_vars

\* Two stores whose variable a has one ValueClass, made when the first was
\* constructed; the second added classes of its own, and so did a subst().
C17_Witness ==
    /\ other # NoStore
    /\ other._values[A]._value_class.oid = _values[A]._value_class.oid
    /\ \E k \in DOMAIN other._values :
         other._values[k]._value_class.oid > Len(keys)
    /\ Ended("subst")
    /\ result.node.value \in DOMAIN VALUE_CLASS_TABLE
    /\ VALUE_CLASS_TABLE[result.node.value].oid = nclasses


\* ------------------------------------------------------------------------
\* Two threads that construct Variables
\* ------------------------------------------------------------------------

\* The elements the threads construct their Variables from.
ThreadInputs ==
    { << InputItem(A, ta), InputItem(B, tb) >> :
        ta \in { << "x" >>, Ref(B) }, tb \in { << "y" >>, Ref(B) } }

\* A thread that has called Variables.__init__(items) and is about to
\* start the loop of _init_values().
Thread(items) ==
    [ pc |-> "try", items |-> items, i |-> 1, ret |-> ValueClass_init(<< >>, 0),
      _values |-> EmptyDict ]

\* The process has one Variables, and two threads start to construct one
\* each.
InitThreads ==
    /\ Constructed({ << InputItem(A, << "x" >>) >> })
    /\ threads \in { << Thread(n1), Thread(n2) >> : n1, n2 \in ThreadInputs }

\* The string thread t has passed to _load_value_class().
ThreadString(t) == threads[t].items[threads[t].i].node.value

\* _load_value_class() returns `class` in thread t: Value.init() ends,
\* _init_values() puts the Value in its dict and goes to the next item.
ThreadReturns(t, class) ==
    LET th == threads[t]
        item == th.items[th.i]
        value == [ vid |-> Value_new(nvalues), provenance |-> item.node.provenance,
                   _value_class |-> class, _resolved |-> None ]
    IN  /\ threads' = [ threads EXCEPT ![t] =
                          [ th EXCEPT !._values = [ k \in DOMAIN th._values \cup { item.key } |->
                                                      IF k = item.key THEN value
                                                      ELSE th._values[k] ],
                                      !.i = th.i + 1,
                                      !.pc = IF th.i < Len(th.items) THEN "try" ELSE "done" ] ]
        /\ nvalues' = Value_new(nvalues)

\* `try: ret = VALUE_CLASS_TABLE[internal_string]` in thread t: the cached
\* object is returned, or KeyError is raised.
ThreadTry(t) ==
    /\ threads[t].pc = "try"
    /\ IF ThreadString(t) \in DOMAIN VALUE_CLASS_TABLE
       THEN ThreadReturns(t, VALUE_CLASS_TABLE[ThreadString(t)])
       ELSE /\ threads' = [ threads EXCEPT ![t].pc = "except" ]
            /\ UNCHANGED nvalues
    /\ UNCHANGED << VALUE_CLASS_TABLE, nclasses >>
    /\ UNCHANGED << node, _values, keys, copy, first, other, pc, op, args, locals,
                    iter, result, pre, pre_resolve >>

\* `except KeyError: ret = ValueClass(); ret.init(internal_string)` in
\* thread t.
ThreadParse(t) ==
    /\ threads[t].pc = "except"
    /\ threads' = [ threads EXCEPT ![t].pc = "insert",
                                   ![t].ret = ValueClass_init(ThreadString(t), nclasses + 1) ]
    /\ nclasses' = nclasses + 1
    /\ UNCHANGED << VALUE_CLASS_TABLE, nvalues >>
    /\ UNCHANGED << node, _values, keys, copy, first, other, pc, op, args, locals,
                    iter, result, pre, pre_resolve >>

\* `VALUE_CLASS_TABLE[internal_string] = ret` and `return ret` in thread t.
ThreadInsert(t) ==
    /\ threads[t].pc = "insert"
    /\ VALUE_CLASS_TABLE' =
         [ str \in DOMAIN VALUE_CLASS_TABLE \cup { ThreadString(t) } |->
             IF str = ThreadString(t) THEN threads[t].ret ELSE VALUE_CLASS_TABLE[str] ]
    /\ ThreadReturns(t, threads[t].ret)
    /\ UNCHANGED nclasses
    /\ UNCHANGED << node, _values, keys, copy, first, other, pc, op, args, locals,
                    iter, result, pre, pre_resolve >>

NextThreads ==
    \/ \E t \in DOMAIN threads : ThreadTry(t)
    \/ \E t \in DOMAIN threads : ThreadParse(t)
    \/ \E t \in DOMAIN threads : ThreadInsert(t)

\* Two threads construct Variables; a thread may be switched for the other
\* between any two of the steps.
SpecThreads == InitThreads /\ [][NextThreads]_vars

\* The Values the threads have made that have the text str.
ThreadValuesOf(str) ==
    UNION { { threads[t]._values[k] :
                k \in { key \in DOMAIN threads[t]._values :
                          MappingGet(threads[t].items, key).value = str } } :
            t \in DOMAIN threads }

\* C18: with stores constructed on two threads, however the lookup, the
\* parse and the insert of _load_value_class() interleave, an entry of
\* the table is never replaced by another ValueClass object, and all the
\* Values with one text have one ValueClass object.
C18_InsertIfAbsent ==
    [][ /\ \A str \in DOMAIN VALUE_CLASS_TABLE :
             /\ str \in DOMAIN VALUE_CLASS_TABLE'
             /\ VALUE_CLASS_TABLE'[str] = VALUE_CLASS_TABLE[str]
        /\ \A str \in DOMAIN VALUE_CLASS_TABLE' :
             \A v, w \in ThreadValuesOf(str)' : v._value_class = w._value_class
      ]_vars


\* C21: a lookup or a get meets a circular-reference error only where a
\* variable that can be reached from the name refers to itself, and the
\* variable the error names does; a variable referred to along two paths,
\* or one that has a step waiting on the stack, is not reported.
C21_NoFalseCycle ==
    /\ (Ended("lookup") /\ Raised("CIRCULAR_REFERENCE_VARIABLE"))
           => /\ ReachesCycle(result.name)
              /\ result.error.varname \in Reach(result.name)
              /\ OnCycle(result.error.varname)
    /\ (Ended("get") /\ result.caught = "CIRCULAR_REFERENCE_VARIABLE")
           => ReachesCycle(result.name)

\* The first loop of a lookup ended without an error although it made two
\* steps for one variable, with different parents, the second while the
\* first was waiting on the stack.
C21_Witness ==
    /\ op.kind = "lookup"
    /\ pc = "deps"
    /\ \E i, j \in DOMAIN steps :
         /\ i < j
         /\ steps[i].referee # None
         /\ steps[i].referee = steps[j].referee
         /\ steps[i].parent # steps[j].parent
         /\ steps[j].prev = i

\* The names the call that ended asked _resolve() for.
Requested ==
    CASE result.op \in { "subst", "expand" } -> TemplateRefs(result.node.value)
      [] result.op = "check" -> DOMAIN _values
      [] OTHER -> { result.name }

\* C22: an undefined-variable error is for a name the store does not
\* define.  Its provenance is that of a stored Value that refers to the
\* name and can be reached from the names asked for; or, the name being
\* one that was asked for, that of the scalar for subst() and expand(),
\* and none for a lookup, check() and the iterator.
C22_ErrorAttribution ==
    (pc = "idle" /\ Raised("UNRESOLVED_VARIABLE"))
        => /\ result.error.varname \notin DOMAIN _values
           /\ \/ \E r \in Requested : \E k \in Reach(r) \cap DOMAIN _values :
                    /\ result.error.varname \in Refs(k)
                    /\ result.error.provenance = _values[k].provenance
              \/ /\ result.error.varname \in Requested
                 /\ result.error.provenance =
                        IF result.op \in { "subst", "expand" }
                        THEN result.node.provenance
                        ELSE None
           /\ (result.error.varname \notin Requested)
                  => \E k \in DOMAIN _values :
                        /\ result.error.varname \in Refs(k)
                        /\ result.error.provenance = _values[k].provenance
           /\ (\A r \in Requested : \A k \in Reach(r) \cap DOMAIN _values :
                    result.error.varname \notin Refs(k))
                  => result.error.provenance =
                        IF result.op \in { "subst", "expand" }
                        THEN result.node.provenance
                        ELSE None

\* subst() failed for a name two levels below the template: the error has
\* the provenance of the variable that refers to the name, which is not
\* the one the template refers to.
C22_Witness ==
    /\ Ended("subst")
    /\ Raised("UNRESOLVED_VARIABLE")
    /\ \E k \in DOMAIN _values \ TemplateRefs(result.node.value) :
         /\ result.error.varname \in Refs(k)
         /\ result.error.provenance = _values[k].provenance

\* C23: a circular-reference error names a variable that refers to itself
\* through the lines of its detail: each line is a reference the store
\* has, with the provenance of the variable that refers, the first line
\* is for the named variable, each line refers to the variable of the
\* next and the last to the named variable; no variable has two lines,
\* so the lines are the k references of a cycle of k variables, and the
\* variables that lead to the cycle have none.
C23_CircularReport ==
    (pc = "idle" /\ Raised("CIRCULAR_REFERENCE_VARIABLE"))
        => LET named == result.error.varname
               lines == result.error.detail
           IN  /\ OnCycle(named)
               /\ Len(lines) >= 1
               /\ lines[1].referee = named
               /\ lines[Len(lines)].refers_to = named
               /\ \A i \in DOMAIN lines :
                    /\ lines[i].referee \in DOMAIN _values
                    /\ lines[i].refers_to \in Refs(lines[i].referee)
                    /\ lines[i].provenance = _values[lines[i].referee].provenance
                    /\ i < Len(lines) => lines[i].refers_to = lines[i + 1].referee
                    /\ \A j \in DOMAIN lines : j # i => lines[j].referee # lines[i].referee

\* The lookup of a variable that is on no cycle met one of two variables:
\* the error has two lines, and none for the variable looked up.
C23_Witness ==
    /\ Ended("lookup")
    /\ Raised("CIRCULAR_REFERENCE_VARIABLE")
    /\ ~OnCycle(result.name)
    /\ Len(result.error.detail) = 2
    /\ \A i \in DOMAIN result.error.detail :
         result.error.detail[i].referee # result.name

\* C25: whatever calls were made, and however they ended, a Value whose
\* memo is set refers only to variables that are defined and whose memos
\* are set, and its memo is its reference expansion; no variable that
\* reaches a cycle or an undefined name has its memo set.
C25_ResolvedClosure ==
    \A k \in DOMAIN _values :
        _values[k]._resolved # None
            => /\ \A n \in Refs(k) : n \in DOMAIN _values /\ _values[n]._resolved # None
               /\ Resolvable(k)
               /\ _values[k]._resolved = Some(Expansion(k))

\* A call failed and left resolved the variables it had resolved before,
\* one of which refers to another; a variable that cannot be resolved is
\* in the store.
C25_Witness ==
    /\ pc = "idle"
    /\ result.kind = "error"
    /\ \E k \in DOMAIN _values : _values[k]._resolved # None /\ Refs(k) # { }
    /\ \E k \in DOMAIN _values : ~Resolvable(k)


\* ------------------------------------------------------------------------
\* Parsing: subst() of one template, out of many, on a small store
\* ------------------------------------------------------------------------

\* The pieces the templates are made of: references to a and b, which the
\* store defines, a reference to a name with a digit, a dash and an
\* underscore, text that looks like a reference and is none, and text.
Pieces ==
    { << >>, Ref(A), Ref(B), Ref(<< "a", "1", "-", "_" >>),
      << "%", "{", "1", "a", "}" >>, << "%", "{", "-", "a", "}" >>,
      << "%", "{", "}" >>, << "%", "{", "a" >>, << "a", "}" >>,
      << "%" >>, << "{" >>, << "x" >> }

ParseTemplates == { p \o q \o r : p \in Pieces, q \in Pieces, r \in Pieces }

\* The scalars subst() is called with.
ParseNodes == { ScalarNode(t, << "command", "0" >>) : t \in ParseTemplates }

\* The element: a is text and b refers to a.
ParseInputs ==
    { << InputItem(A, << "x" >>), InputItem(B, Ref(A) \o << "y" >>) >> }

\* The first call of the process is subst(n).
SubstFirst(n) ==
    /\ result = NoResult
    /\ Subst(n)

NextParse ==
    \/ \E n \in ParseNodes : SubstFirst(n)
    \/ SubstLoop
    \/ ResolveEnter
    \/ StepPop
    \/ Visit
    \/ Finalize

SpecParse == Constructed(ParseInputs) /\ threads = << >> /\ [][NextParse]_vars

\* s[i..e] is a reference: "%{", a letter, letters, digits, dashes and
\* underscores, "}".
WellFormedAt(s, i, e) ==
    /\ i + 3 <= e
    /\ e <= Len(s)
    /\ s[i] = "%"
    /\ s[i + 1] = "{"
    /\ s[i + 2] \in Letters
    /\ \A j \in (i + 3)..(e - 1) : s[j] \in NameChars
    /\ s[e] = "}"

\* Where the references of s are.
References(s) ==
    { r \in (1..Len(s)) \X (1..Len(s)) : WellFormedAt(s, r[1], r[2]) }

\* The ValueClass of the template subst() is running for.
Parsed == op.value._value_class

\* C24: the parts of a parsed template are not empty; no literal part
\* follows a literal part; the variable parts are as many as the
\* references of the template and have their names, which are the
\* variable names of the ValueClass and the dependencies of the Value; a
\* literal part has no reference in it, and text that only looks like a
\* reference is in literal parts; the parts joined, the variable parts as
\* %{name}, are the template.  subst() of a template without a reference
\* returns the template.
C24_Parsing ==
    /\ op.kind = "subst"
         => LET text == op.node.value
                parts == Parsed.parts
                variables == { i \in DOMAIN parts : parts[i].is_variable }
            IN  /\ \A i \in DOMAIN parts : parts[i].text # << >>
                /\ \A i \in DOMAIN parts \ variables : (i + 1) \in DOMAIN parts
                       => parts[i + 1].is_variable
                /\ Cardinality(variables) = Cardinality(References(text))
                /\ Parsed.variable_names = { parts[i].text : i \in variables }
                /\ Parsed.variable_names =
                       { SubSeq(text, r[1] + 2, r[2] - 1) : r \in References(text) }
                /\ Value_dependencies(op.value) = Parsed.variable_names
                /\ \A i \in DOMAIN parts \ variables : References(parts[i].text) = { }
                /\ Unparsed(Parsed) = text
    /\ (Ended("subst") /\ References(result.node.value) = { })
         => /\ result.kind = "str"
            /\ result.value = result.node.value

\* subst("%{a}%{b}%{1a}") returned "x" "xy" "%{1a}": the parts were two
\* variable parts and a literal part.
C24_Witness ==
    /\ Ended("subst")
    /\ result.node.value = Ref(A) \o Ref(B) \o << "%", "{", "1", "a", "}" >>
    /\ result.kind = "str"
    /\ result.value = << "x", "x", "y", "%", "{", "1", "a", "}" >>
    /\ LET parts == VALUE_CLASS_TABLE[result.node.value].parts
       IN  /\ Len(parts) = 3
           /\ parts[1].is_variable
           /\ parts[2].is_variable
           /\ ~parts[3].is_variable

=============================================================================
